---- MODULE Spec2Model ----
(***************************************************************************)
(* Message-stream reconciliation of StreamSession                          *)
(* (src/src/providers/Stream.tsx).  The React state cell `messages` is the *)
(* Conversation Store; it is written by three functional updaters (token   *)
(* delta, phase-boundary-end snapshot, authoritative sync).  React applies *)
(* queued functional updaters one at a time, in the order they were        *)
(* queued, each to the result of the previous one, so one step of the      *)
(* model is one handler together with the updater it queued.               *)
(***************************************************************************)
EXTENDS Integers, Sequences, FiniteSets, TLC

\* ------------------------------------------------------------------ bounds
\* Token deltas that pass the content guard, over the whole session.
MaxDeltas == 2
\* Longest message list carried by a phase-boundary-end event or exposed by
\* the authoritative channel.
MaxList == 2
\* Error notifications raised by failed health probes.
MaxToasts == 2

\* ------------------------------------------------------- JavaScript values
\* A content value is undefined, a string, an array, or an object (a
\* structured content block).  One record shape for all, so that values of
\* different kinds can be compared.
Undef == [t |-> "undef", s |-> "", a |-> <<>>]
Str(x) == [t |-> "str", s |-> x, a |-> <<>>]
Arr(x) == [t |-> "arr", s |-> "", a |-> x]
Block(x) == [t |-> "obj", s |-> x, a |-> <<>>]

\* JavaScript truthiness: undefined and "" are falsy, arrays and objects
\* (also the empty array) are truthy.
Truthy(v) == IF v.t = "str" THEN v.s # "" ELSE v.t # "undef"

\* Array.prototype.join(","), as Array.prototype.toString calls it: an
\* undefined element gives "", a string itself, an object "[object Object]".
\* Elements are never arrays here (the code only ever boxes a non-array).
ElemToString(e) ==
  CASE e.t = "str" -> e.s
    [] e.t = "obj" -> "[object Object]"
    [] OTHER -> ""

RECURSIVE Join(_)
Join(a) ==
  IF a = <<>> THEN ""
  ELSE IF Len(a) = 1 THEN ElemToString(a[1])
  ELSE ElemToString(a[1]) \o "," \o Join(Tail(a))

\* ToString of the left operand of `+` when the right one is a string.
ToStringJS(v) ==
  CASE v.t = "str" -> v.s
    [] v.t = "arr" -> Join(v.a)
    [] v.t = "obj" -> "[object Object]"
    [] OTHER -> "undefined"

\* ------------------------------------------------------------------ inputs
Ids == {"m1", "m2"}
\* An absent or empty id (falsy in `chunk.id` and in `msg.id`).
NoId == ""

BlockA == Block("a")
BlockB == Block("b")

\* chunk.content of a stream-delta event: text, an array of blocks, empty
\* text, or absent.
Fragments ==
  {Str("Hi"), Str(" there"), Str(""), Undef,
   Arr(<<BlockA>>), Arr(<<BlockB>>), Arr(<<>>)}

Chunk(id, content) == [id |-> id, content |-> content, role |-> "ai"]

\* Every fragment for m1, one text fragment for m2, one chunk without an id.
Chunks ==
  {Chunk("m1", f) : f \in Fragments}
    \cup {Chunk("m2", Str("Hi")), Chunk(NoId, Str("Hi"))}

\* Complete messages as a snapshot or the authoritative list carries them.
M1 == [id |-> "m1", content |-> Str("Hello"), role |-> "ai"]
M2 == [id |-> "m2", content |-> Str("done"), role |-> "tool"]
M0 == [id |-> NoId, content |-> Str("anon"), role |-> "human"]
Pool == {M1, M2, M0}

RECURSIVE SeqsUpTo(_, _)
SeqsUpTo(S, n) ==
  IF n = 0 THEN {<<>>}
  ELSE LET shorter == SeqsUpTo(S, n - 1)
       IN shorter \cup {Append(q, x) : q \in shorter, x \in S}

Lists == SeqsUpTo(Pool, MaxList)


\* Mutant of StreamEvents: a start event is taken for a stream delta.
StreamEventsAndStart == {"on_chain_stream", "on_chat_model_stream", "on_chat_model_start"}

StreamEvents == {"on_chain_stream", "on_chat_model_stream"}
EndEvents == {"on_chain_end", "on_tool_end", "on_chat_model_end"}
StartEvents == {"on_chain_start", "on_tool_start", "on_chat_model_start"}
EventNames == StreamEvents \cup EndEvents \cup StartEvents \cup {"on_retriever_end"}

\* data of a LangChain event: `data.chunk` and `data.output.messages`, each
\* present or not.
NoData ==
  [hasChunk |-> FALSE, chunk |-> [id |-> NoId, content |-> Undef, role |-> "ai"],
   hasMessages |-> FALSE, messages |-> <<>>]
ChunkData(c) == [NoData EXCEPT !.hasChunk = TRUE, !.chunk = c]
OutputData(L) == [NoData EXCEPT !.hasMessages = TRUE, !.messages = L]

\* The data delivered with an event.  Model-level streaming carries every
\* chunk and chain-level streaming two of them; a chain end carries every
\* list, a tool end and a model end one list each; every event may also come
\* without the field its branch reads.
Datas(event) ==
  {NoData} \cup
  CASE event = "on_chat_model_stream" -> {ChunkData(c) : c \in Chunks}
    [] event = "on_chain_stream" ->
         {ChunkData(Chunk("m1", Str("Hi"))), ChunkData(Chunk("m2", Str("Hi")))}
    [] event = "on_chain_end" -> {OutputData(L) : L \in Lists}
    [] event = "on_tool_end" -> {OutputData(<<M2>>)}
    [] event = "on_chat_model_end" -> {OutputData(<<M1>>)}
    [] OTHER -> {}

\* streamValue.messages: absent, or a list.
NoStreamMessages == [hasMessages |-> FALSE, messages |-> <<>>]
AuthLists == {<<>>, <<M0, M2>>, <<M2, M1>>}
StreamValues ==
  {NoStreamMessages} \cup {[hasMessages |-> TRUE, messages |-> L] : L \in AuthLists}

\* Custom events: a UIMessage, a RemoveUIMessage, or anything else.
UIds == {"u1"}
UIEvents ==
  [type : {"ui"}, id : UIds, props : {"v1"}]
    \cup [type : {"remove-ui"}, id : UIds, props : {""}]
    \cup [type : {"progress"}, id : UIds, props : {""}]

ThreadIds == {"t1"}

\* ------------------------------------------------------------------- state
VARIABLES
  messages,      \* useState<any[]>([]) : the Conversation Store
  liveMessage,   \* useState("")
  threadId,      \* useQueryState("threadId")
  ui,            \* streamValue.values.ui : the UI-attachment list
  streamValue,   \* streamValue.messages as the last render exposed it
  effectPending, \* the [streamValue] effect of the last render has not run yet
  toasts,        \* toast.error notifications raised so far
  origin,        \* history: the channel that first wrote each id
  frags,         \* history: the accepted fragments delivered for each id
  delivered,     \* history: ids carried by the events delivered so far
  last           \* history: the last event handled, in a session that logs

vars ==
  <<messages, liveMessage, threadId, ui, streamValue, effectPending, toasts,
    origin, frags, delivered, last>>

\* --------------------------------------------------------------- updaters
\* prevMessages.findIndex((msg) => msg.id === chunkId); 0 stands for -1.
FindIndex(prev, chunkId) ==
  IF \E i \in 1 .. Len(prev) : prev[i].id = chunkId
  THEN CHOOSE i \in 1 .. Len(prev) :
         /\ prev[i].id = chunkId
         /\ \A j \in 1 .. (i - 1) : prev[j].id # chunkId
  ELSE 0

\* Mutant: the fragment is put before the existing content.
StringPrepend(content, chunkContent) ==
  Str(chunkContent.s \o ToStringJS(IF Truthy(content) THEN content ELSE Str("")))

\* (existingMessage.content || "") + chunkContent
StringAppend(content, chunkContent) ==
  Str(ToStringJS(IF Truthy(content) THEN content ELSE Str("")) \o chunkContent.s)

\* Mutant of ArrayAppend: scalar content is not boxed.
ArrayAppendUnboxed(content, chunkContent) == Arr(content.a \o chunkContent.a)

\* Array.isArray(existingMessage.content)
\*   ? [...existingMessage.content, ...chunkContent]
\*   : [existingMessage.content, ...chunkContent]
ArrayAppend(content, chunkContent) ==
  IF content.t = "arr"
  THEN Arr(content.a \o chunkContent.a)
  ELSE Arr(<<content>> \o chunkContent.a)

\* The object written at existingMessageIndex: the existing message with its
\* content replaced; neither branch is taken for other content types.
AppendContent(existingMessage, chunkContent) ==
  IF chunkContent.t = "str"
  THEN [existingMessage EXCEPT !.content = StringAppend(@, chunkContent)]
  ELSE IF chunkContent.t = "arr"
  THEN [existingMessage EXCEPT !.content = ArrayAppend(@, chunkContent)]
  ELSE existingMessage

\* { id: chunkId, content: chunkContent, ...dataWithChunk.chunk }
NewMessage(chunk) ==
  [id |-> chunk.id, content |-> chunk.content, role |-> chunk.role]

\* Mutant: a delta for an id that is not in the store is dropped.
TokenDeltaUpdaterNoCreate(prev, chunk) ==
  LET existingMessageIndex == FindIndex(prev, chunk.id)
  IN IF existingMessageIndex # 0
     THEN [prev EXCEPT ![existingMessageIndex] = AppendContent(@, chunk.content)]
     ELSE prev

\* Mutant of TokenDeltaUpdater: the chunk's fields are spread over the entry.
TokenDeltaUpdaterSpreadingChunk(prev, chunk) ==
  LET existingMessageIndex == FindIndex(prev, chunk.id)
  IN IF existingMessageIndex # 0
     THEN [prev EXCEPT ![existingMessageIndex] =
             [AppendContent(@, chunk.content) EXCEPT !.role = chunk.role]]
     ELSE Append(prev, NewMessage(chunk))

\* The updater queued for a stream-delta event.
TokenDeltaUpdater(prev, chunk) ==
  LET existingMessageIndex == FindIndex(prev, chunk.id)
  IN IF existingMessageIndex # 0
     THEN [prev EXCEPT ![existingMessageIndex] = AppendContent(@, chunk.content)]
     ELSE Append(prev, NewMessage(chunk))

\* new Set(prevMessages.map((msg) => msg.id))
ExistingIds(prev) == {prev[i].id : i \in 1 .. Len(prev)}

\* Mutant: the filter keeps every message that has an id.
UniqueNewMessagesNoDedup(prev, newMessages) ==
  LET Keep(msg) == msg.id # NoId
  IN SelectSeq(newMessages, Keep)

\* newMessages.filter((msg) => msg.id && !existingIds.has(msg.id))
UniqueNewMessages(prev, newMessages) ==
  LET existingIds == ExistingIds(prev)
      Keep(msg) == msg.id # NoId /\ msg.id \notin existingIds
  IN SelectSeq(newMessages, Keep)

\* The message of list L that has the id of m, or m when L has none.
Incoming(m, L) ==
  IF \E k \in 1 .. Len(L) : L[k].id = m.id
  THEN L[CHOOSE k \in 1 .. Len(L) : L[k].id = m.id]
  ELSE m

\* Mutant: the new messages are put before the existing ones.
SnapshotUpdaterPrepend(prev, newMessages) ==
  LET uniqueNewMessages == UniqueNewMessages(prev, newMessages)
  IN IF Len(uniqueNewMessages) > 0 THEN uniqueNewMessages \o prev ELSE prev

\* Mutant: an existing entry is replaced by the snapshot's message of its id.
SnapshotUpdaterOverwrite(prev, newMessages) ==
  LET uniqueNewMessages == UniqueNewMessages(prev, newMessages)
  IN [i \in 1 .. Len(prev) |-> Incoming(prev[i], newMessages)] \o uniqueNewMessages

\* The updater queued for a phase-boundary-end event.
SnapshotUpdater(prev, newMessages) ==
  LET uniqueNewMessages == UniqueNewMessages(prev, newMessages)
  IN IF Len(uniqueNewMessages) > 0 THEN prev \o uniqueNewMessages ELSE prev

\* Mutant: only the first message that is not in the store is taken.
NewMessagesFromStreamFirst(prev, streamMessages) ==
  LET existingIds == ExistingIds(prev)
      Keep(msg) == msg.id # NoId /\ msg.id \notin existingIds
      new == SelectSeq(streamMessages, Keep)
  IN IF new = <<>> THEN <<>> ELSE <<Head(new)>>

\* Mutant of NewMessagesFromStream: the filter does not ask for an id.
NewMessagesFromStreamAnyId(prev, streamMessages) ==
  LET existingIds == ExistingIds(prev)
      Keep(msg) == msg.id \notin existingIds
  IN SelectSeq(streamMessages, Keep)

\* streamMessages.filter((msg) => msg.id && !existingIds.has(msg.id))
NewMessagesFromStream(prev, streamMessages) ==
  LET existingIds == ExistingIds(prev)
      Keep(msg) == msg.id # NoId /\ msg.id \notin existingIds
  IN SelectSeq(streamMessages, Keep)

\* Mutant: the store is replaced by the new messages.
SyncUpdaterReplace(prev, streamMessages) ==
  LET newMessagesFromStream == NewMessagesFromStream(prev, streamMessages)
  IN IF Len(newMessagesFromStream) > 0 THEN newMessagesFromStream ELSE prev

\* Mutant: an existing entry is replaced by the authoritative message of its id.
SyncUpdaterOverwrite(prev, streamMessages) ==
  LET newMessagesFromStream == NewMessagesFromStream(prev, streamMessages)
  IN [i \in 1 .. Len(prev) |-> Incoming(prev[i], streamMessages)] \o newMessagesFromStream

\* The updater queued by the [streamValue] effect.
SyncUpdater(prev, streamMessages) ==
  LET newMessagesFromStream == NewMessagesFromStream(prev, streamMessages)
  IN IF Len(newMessagesFromStream) > 0 THEN prev \o newMessagesFromStream ELSE prev

\* Mutant: the updater builds on the `messages` a closure captured when the
\* component mounted.
MountMessages == <<>>

\* The value React passes to a functional updater: the state as the updaters
\* queued before it left it.
PrevMessages == messages

\* uiMessageReducer(prev.ui ?? [], event) of @langchain/langgraph-sdk/react-ui:
\* a remove event drops the entries with its id, a UI message replaces the
\* entry with its id in place, or is pushed when there is none.
UiMessageReducer(state, event) ==
  LET Other(m) == m.id # event.id
      index == IF \E i \in 1 .. Len(state) : state[i].id = event.id
               THEN CHOOSE i \in 1 .. Len(state) :
                      /\ state[i].id = event.id
                      /\ \A j \in 1 .. (i - 1) : state[j].id # event.id
               ELSE 0
      entry == [id |-> event.id, props |-> event.props]
  IN IF event.type = "remove-ui" THEN SelectSeq(state, Other)
     ELSE IF index # 0 THEN [state EXCEPT ![index] = entry]
     ELSE Append(state, entry)

\* ----------------------------------------------------------------- history
TruthyIds(L) == {L[i].id : i \in 1 .. Len(L)} \ {NoId}

RECURSIVE TotalFrags(_)
TotalFrags(S) ==
  IF S = {} THEN 0
  ELSE LET x == CHOOSE y \in S : TRUE IN Len(frags[x]) + TotalFrags(S \ {x})

\* The list `L` arrived on `channel`: the ids it is the first to carry get
\* `channel` as their origin.
ListHistory(L, channel) ==
  /\ origin' = [x \in Ids |->
                  IF x \in TruthyIds(L) /\ origin[x] = "none" THEN channel ELSE origin[x]]
  /\ delivered' = delivered \cup TruthyIds(L)
  /\ UNCHANGED frags

\* The record of a handled event: the handler, the event name (or the custom
\* event's type, or the probe's outcome), an id and a value where the event
\* has them, and the data of a LangChain event.
NotLogged ==
  [on |-> FALSE, handler |-> "", event |-> "", arg |-> "", val |-> "", data |-> NoData]
Logged(handler, event, arg, val, data) ==
  [on |-> TRUE, handler |-> handler, event |-> event, arg |-> arg, val |-> val,
   data |-> data]

\* A session that logs records the event; the others leave `last` alone.
Log(e) == last' = IF last.on THEN e ELSE last

\* -------------------------------------------------------------------- init
\* The state after construction, but for the log.
Mounted ==
  /\ messages = <<>>
  /\ liveMessage = ""
  /\ threadId = "null"
  /\ ui = <<>>
  /\ streamValue = [hasMessages |-> TRUE, messages |-> <<>>]
  /\ effectPending = TRUE
  /\ toasts = 0
  /\ origin = [x \in Ids |-> "none"]
  /\ frags = [x \in Ids |-> <<>>]
  /\ delivered = {}

Init == Mounted /\ last = NotLogged

\* ----------------------------------------------------------------- actions
\* dataWithChunk?.chunk && dataWithChunk.chunk.id, and the content guard
\* chunkContent !== undefined && chunkContent !== null && chunkContent !== "".
DeltaAccepted(data) ==
  /\ data.hasChunk
  /\ data.chunk.id # NoId
  /\ data.chunk.content # Undef
  /\ data.chunk.content # Str("")

\* dataWithOutput?.output?.messages && Array.isArray(...)
SnapshotAccepted(data) == data.hasMessages

\* onLangChainEvent: ({ event, data }) => ...
OnLangChainEvent(event, data) ==
  /\ UNCHANGED <<liveMessage, threadId, ui, streamValue, effectPending, toasts>>
  /\ Log(Logged("onLangChainEvent", event, "", "", data))
  /\ IF event \in StreamEvents
     THEN IF DeltaAccepted(data)
          THEN /\ TotalFrags(Ids) < MaxDeltas
               /\ messages' = TokenDeltaUpdater(PrevMessages, data.chunk)
               /\ origin' = [origin EXCEPT ![data.chunk.id] =
                               IF @ = "none" THEN "delta" ELSE @]
               /\ frags' = [frags EXCEPT ![data.chunk.id] = Append(@, data.chunk.content)]
               /\ delivered' = delivered \cup {data.chunk.id}
          ELSE UNCHANGED <<messages, origin, frags, delivered>>
     ELSE IF event \in EndEvents
     THEN IF SnapshotAccepted(data)
          THEN /\ messages' = SnapshotUpdater(PrevMessages, data.messages)
               /\ ListHistory(data.messages, "snapshot")
          ELSE UNCHANGED <<messages, origin, frags, delivered>>
     ELSE UNCHANGED <<messages, origin, frags, delivered>>

\* Mutant of IsUiEvent: the remove events are not recognised.
IsUiEventUpsertOnly(event) == event.type = "ui"

\* isUIMessage(event) || isRemoveUIMessage(event)
IsUiEvent(event) == event.type \in {"ui", "remove-ui"}

\* Mutant of OnCustomEvent: the handler also empties the store.
OnCustomEventResettingStore(event) ==
  /\ IF IsUiEvent(event)
     THEN ui' = UiMessageReducer(ui, event)
     ELSE UNCHANGED ui
  /\ messages' = <<>>
  /\ Log(Logged("onCustomEvent", event.type, event.id, event.props, NoData))
  /\ UNCHANGED <<liveMessage, threadId, streamValue, effectPending, toasts,
                 origin, frags, delivered>>

\* onCustomEvent: (event, options) => ... options.mutate(...)
OnCustomEvent(event) ==
  /\ IF IsUiEvent(event)
     THEN ui' = UiMessageReducer(ui, event)
     ELSE UNCHANGED ui
  /\ Log(Logged("onCustomEvent", event.type, event.id, event.props, NoData))
  /\ UNCHANGED <<messages, liveMessage, threadId, streamValue, effectPending, toasts,
                 origin, frags, delivered>>

\* onUpdateEvent: (update) => setLiveMessage("")
OnUpdateEvent ==
  /\ liveMessage' = ""
  /\ Log(Logged("onUpdateEvent", "", "", "", NoData))
  /\ UNCHANGED <<messages, threadId, ui, streamValue, effectPending, toasts,
                 origin, frags, delivered>>

\* Mutant of OnThreadId: a new thread id empties the store.
OnThreadIdResettingStore(id) ==
  /\ threadId' = id
  /\ liveMessage' = ""
  /\ messages' = IF id # threadId THEN <<>> ELSE messages
  /\ Log(Logged("onThreadId", "", id, threadId, NoData))
  /\ UNCHANGED <<ui, streamValue, effectPending, toasts, origin, frags, delivered>>

\* onThreadId: (id) => setThreadId(id); setLiveMessage(""); the log keeps
\* the id tracked before; the delayed
\* refetch writes the thread list of the Threads provider, which is not part
\* of this component's state.
OnThreadId(id) ==
  /\ threadId' = id
  /\ liveMessage' = ""
  /\ Log(Logged("onThreadId", "", id, threadId, NoData))
  /\ UNCHANGED <<messages, ui, streamValue, effectPending, toasts,
                 origin, frags, delivered>>

\* A render in which useStream returns a new streamValue.  React runs the
\* effects of a render before it starts the next one.
StreamValueChange(sv) ==
  /\ ~effectPending
  /\ streamValue' = sv
  /\ effectPending' = TRUE
  /\ Log(Logged("render", "", "", "", NoData))
  /\ UNCHANGED <<messages, liveMessage, threadId, ui, toasts,
                 origin, frags, delivered>>

\* useEffect(() => { ... setMessages(...) ... }, [streamValue])
SyncEffect ==
  /\ effectPending
  /\ effectPending' = FALSE
  /\ IF streamValue.hasMessages
     THEN /\ messages' = SyncUpdater(PrevMessages, streamValue.messages)
          /\ ListHistory(streamValue.messages, "sync")
     ELSE UNCHANGED <<messages, origin, frags, delivered>>
  /\ Log(Logged("syncEffect", "", "", "", NoData))
  /\ UNCHANGED <<liveMessage, threadId, ui, streamValue, toasts>>

\* Mutant of CheckGraphStatus: a thrown error is not turned into false.
CheckGraphStatusUncaught(outcome) == outcome # "not-ok"

\* checkGraphStatus: res.ok when the fetch answers, false when it throws.
CheckGraphStatus(outcome) == outcome = "ok"

\* useEffect(() => { checkGraphStatus(apiUrl, apiKey).then((ok) => ...) },
\* [apiKey, apiUrl]): one probe, started at mount or when the endpoint or the
\* key changed, has answered.
HealthProbe(outcome) ==
  /\ IF ~CheckGraphStatus(outcome)
     THEN toasts < MaxToasts /\ toasts' = toasts + 1
     ELSE UNCHANGED toasts
  /\ Log(Logged("healthProbe", outcome, "", "", NoData))
  /\ UNCHANGED <<messages, liveMessage, threadId, ui, streamValue, effectPending,
                 origin, frags, delivered>>

Next ==
  \/ \E event \in EventNames : \E data \in Datas(event) : OnLangChainEvent(event, data)
  \/ \E event \in UIEvents : OnCustomEvent(event)
  \/ OnUpdateEvent
  \/ \E id \in ThreadIds : OnThreadId(id)
  \/ \E sv \in StreamValues : StreamValueChange(sv)
  \/ SyncEffect
  \/ \E outcome \in {"ok"} : HealthProbe(outcome)

Spec == Init /\ [][Next]_vars

\* ----------------------------------------------------------------- session
\* The same handlers in a session that logs the events it handles, fed the
\* events whose handling is a matter of which handler runs rather than of
\* what the lists carry: few messages, every event name, every kind of
\* custom event, two thread ids, every outcome of the health probe.
SessionDatas(event) ==
  CASE event = "on_chat_model_stream" ->
         {NoData, ChunkData(Chunk("m1", Str("Hi"))), ChunkData(Chunk("m1", Str(""))),
          ChunkData(Chunk(NoId, Str("Hi")))}
    [] event = "on_chain_stream" -> {NoData}
    [] event = "on_chain_end" -> {NoData, OutputData(<<M1>>)}
    [] event \in EndEvents -> {NoData}
    [] OTHER -> {ChunkData(Chunk("m2", Str("Hi")))}

SessionStreamValues == {NoStreamMessages, [hasMessages |-> TRUE, messages |-> <<M2>>]}

SessionUIds == {"u1", "u2"}
SessionProps == {"v1", "v2"}
SessionUIEvents ==
  [type : {"ui"}, id : SessionUIds, props : SessionProps]
    \cup [type : {"remove-ui"}, id : SessionUIds, props : {""}]
    \cup [type : {"progress"}, id : {"u1"}, props : {""}]

SessionThreadIds == {"t1", "t2"}

\* The fetch answers with an OK status, answers with another one, or throws.
ProbeOutcomes == {"ok", "not-ok", "throws"}

SessionInit == Mounted /\ last = [NotLogged EXCEPT !.on = TRUE]

SessionNext ==
  \/ \E event \in EventNames : \E data \in SessionDatas(event) :
       OnLangChainEvent(event, data)
  \/ \E event \in SessionUIEvents : OnCustomEvent(event)
  \/ OnUpdateEvent
  \/ \E id \in SessionThreadIds : OnThreadId(id)
  \/ \E sv \in SessionStreamValues : StreamValueChange(sv)
  \/ SyncEffect
  \/ \E outcome \in ProbeOutcomes : HealthProbe(outcome)

SessionSpec == SessionInit /\ [][SessionNext]_vars

\* ------------------------------------------------------- claim vocabulary
IdsOf(msgs) == [i \in 1 .. Len(msgs) |-> msgs[i].id]

IsPrefix(u, v) == Len(u) <= Len(v) /\ SubSeq(v, 1, Len(u)) = u

\* u can be obtained from v by deleting elements (the order is kept).
RECURSIVE IsSubsequence(_, _)
IsSubsequence(u, v) ==
  IF u = <<>> THEN TRUE
  ELSE IF v = <<>> THEN FALSE
  ELSE IF Head(u) = Head(v) THEN IsSubsequence(Tail(u), Tail(v))
  ELSE IsSubsequence(u, Tail(v))

\* What a step appended to the store.
Appended == SubSeq(messages', Len(messages) + 1, Len(messages'))

\* The step merges a phase-boundary-end snapshot carrying the list L (the
\* three end events run the same branch; a chain end carries every list).
SnapshotStep(L) == OnLangChainEvent("on_chain_end", OutputData(L))

\* The step appends to the store without delivering a token delta: it is a
\* snapshot merge or an authoritative-sync merge.
ListAppendStep == Len(messages') > Len(messages) /\ frags' = frags

\* The step runs the authoritative-sync effect on a present list.
SyncStep == SyncEffect /\ streamValue.hasMessages

\* The store entry at the first position holding id x.
Entry(x) == messages[FindIndex(messages, x)]

\* ---------------------------------------------------------------------- C1
\* C1: in every reachable state no two entries of the Conversation Store
\* share an id, whatever message lists the snapshot and authoritative-sync
\* merges are given.
NoDuplicateIds ==
  \A i, j \in 1 .. Len(messages) : i # j => messages[i].id # messages[j].id

\* ---------------------------------------------------------------------- C2
\* C2: every step keeps the ids of the store as a prefix of the ids after
\* it (so an id first seen as a token delta keeps its position), and what a
\* snapshot or an authoritative sync adds comes after the old tail, in the
\* relative order of the incoming list.
AppendOrderStable ==
  [][/\ IsPrefix(IdsOf(messages), IdsOf(messages'))
     /\ ListAppendStep =>
          /\ \A L \in Lists : SnapshotStep(L) => IsSubsequence(Appended, L)
          /\ SyncStep => IsSubsequence(Appended, streamValue.messages)]_vars

\* A delta created m1 and a snapshot then added m2 behind it.
AppendOrderWitness ==
  /\ IdsOf(messages) = <<"m1", "m2">>
  /\ origin["m1"] = "delta"
  /\ origin["m2"] = "snapshot"
  /\ Len(frags["m1"]) = 2

\* ---------------------------------------------------------------------- C3
HiThere == [id |-> "m1", content |-> Str("Hi there"), role |-> "ai"]

\* C3: a snapshot merge or an authoritative-sync merge (a step that changes
\* the store without delivering a token delta) leaves every entry already
\* in the store as it is; after the deltas "Hi", " there" for m1, the
\* snapshot [m1 with other content, m2] gives exactly [m1 "Hi there", m2].
SnapshotKeepsExisting ==
  [][/\ (messages' # messages /\ frags' = frags)
          => /\ Len(messages') >= Len(messages)
             /\ \A i \in 1 .. Len(messages) : messages'[i] = messages[i]
     /\ (messages = <<HiThere>> /\ SnapshotStep(<<M1, M2>>))
          => messages' = <<HiThere, M2>>]_vars

\* The end of the scenario: m1 as the deltas built it, then m2.
SnapshotKeepsExistingWitness ==
  /\ messages = <<HiThere, M2>>
  /\ frags["m1"] = <<Str("Hi"), Str(" there")>>
  /\ origin["m1"] = "delta"
  /\ origin["m2"] = "snapshot"

\* ---------------------------------------------------------------------- C4
\* C4: no step of a session makes the store shorter or removes an id from it.
StoreMonotone ==
  [][/\ Len(messages') >= Len(messages)
     /\ ExistingIds(messages) \subseteq ExistingIds(messages')]_vars

\* A store built by all three mergers, after custom UI and thread-id events.
StoreMonotoneWitness ==
  /\ Len(messages) >= 2
  /\ \E x \in Ids : origin[x] = "sync"
  /\ \E x \in Ids : origin[x] = "delta"
  /\ ui # <<>>
  /\ threadId = "t1"

\* ---------------------------------------------------------------------- C5
\* C5: for every store the session reaches and every list L, merging L twice
\* gives the store that merging it once gives, for the snapshot merge and for
\* the authoritative-sync merge.
MergeIdempotent ==
  \A L \in Lists :
    /\ SnapshotUpdater(SnapshotUpdater(messages, L), L) = SnapshotUpdater(messages, L)
    /\ SyncUpdater(SyncUpdater(messages, L), L) = SyncUpdater(messages, L)

\* A store a snapshot has written, for which a further list still adds
\* something on its first merge.
MergeIdempotentWitness ==
  /\ origin["m1"] = "snapshot"
  /\ origin["m2"] = "none"
  /\ SnapshotUpdater(messages, <<M1, M2>>) # messages

\* ---------------------------------------------------------------------- C6
AllText(log) == \A i \in 1 .. Len(log) : log[i].t = "str"
AllBlocks(log) == \A i \in 1 .. Len(log) : log[i].t = "arr"

\* The fragments of a log put one after the other: text as one string,
\* block arrays as one sequence of blocks.
RECURSIVE ConcatText(_)
ConcatText(log) == IF log = <<>> THEN "" ELSE Head(log).s \o ConcatText(Tail(log))

RECURSIVE ConcatBlocks(_)
ConcatBlocks(log) == IF log = <<>> THEN <<>> ELSE Head(log).a \o ConcatBlocks(Tail(log))

\* C6: for an id a token delta created, if the fragments delivered for it so
\* far are all text the stored content is the string they concatenate to, in
\* delivery order, and if they are all block arrays it is the sequence of
\* their blocks in delivery order; whatever was delivered for other ids.
DeltaAccumulates ==
  \A x \in Ids :
    origin[x] = "delta" =>
      /\ x \in ExistingIds(messages)
      /\ AllText(frags[x]) => Entry(x).content = Str(ConcatText(frags[x]))
      /\ AllBlocks(frags[x]) => Entry(x).content = Arr(ConcatBlocks(frags[x]))

\* Two block fragments for m1, with m2 added in between or after.
DeltaAccumulatesWitness ==
  /\ origin["m1"] = "delta"
  /\ frags["m1"] = <<Arr(<<BlockA>>), Arr(<<BlockB>>)>>
  /\ Entry("m1").content = Arr(<<BlockA, BlockB>>)
  /\ origin["m2"] = "snapshot"

\* ---------------------------------------------------------------------- C7
ContentChanged(i) == i <= Len(messages') /\ messages'[i].content # messages[i].content

\* C7 as stated: the channel that first wrote an id owns its content; the
\* snapshot and sync mergers never change content, so the content of an
\* entry changes only if a token delta first wrote its id.
FirstWriterOwnsContent ==
  [][\A i \in 1 .. Len(messages) :
       ContentChanged(i) => origin[messages[i].id] = "delta"]_vars

\* C7 (amended): the content of an entry changes only in a step that delivers
\* a token delta for its id, whichever channel first wrote the id; no
\* snapshot, sync or other event changes it.
ContentChangesOnlyByDelta ==
  [][\A i \in 1 .. Len(messages) :
       ContentChanged(i) =>
         /\ Len(frags'[messages[i].id]) = Len(frags[messages[i].id]) + 1
         /\ \A j \in 1 .. Len(messages) : j # i => messages'[j] = messages[j]]_vars

\* A snapshot wrote m1, the sync then carried m1 again, and a token delta
\* for m1 was appended to the snapshot's content.
ContentChangesOnlyByDeltaWitness ==
  /\ origin["m1"] = "snapshot"
  /\ frags["m1"] = <<Str("Hi")>>
  /\ Entry("m1").content = Str("HelloHi")
  /\ ~effectPending
  /\ streamValue.messages = <<M2, M1>>

\* ---------------------------------------------------------------------- C8
\* C8: the set of ids in the store is the union of the ids carried by the
\* events delivered so far (the token deltas that pass the guards, the
\* snapshot lists, the authoritative lists): it depends on which events were
\* delivered and not on their order.
IdSetIsUnionOfDelivered == ExistingIds(messages) = delivered

\* The same ids as in the C2 witness, delivered in the other order.
IdSetWitness ==
  /\ IdsOf(messages) = <<"m2", "m1">>
  /\ origin["m1"] = "delta"
  /\ origin["m2"] = "snapshot"

\* ---------------------------------------------------------------------- C9
\* The text a list carries for id x.
PoolText(x) == (CHOOSE m \in Pool : m.id = x).content.s

\* C9: whatever the interleaving of the three mergers, no id that was
\* written is missing from the store, and the fragments delivered for an id
\* are in its content once each and in delivery order: after text only, the
\* content is the text the id started with (none if a delta created it)
\* followed by the fragments; after block arrays only, it is the sequence
\* starting with what the id started with, followed by their blocks.
NoLostUpdates ==
  \A x \in Ids :
    origin[x] # "none" =>
      /\ x \in ExistingIds(messages)
      /\ LET base == IF origin[x] = "delta" THEN "" ELSE PoolText(x)
             boxed == IF origin[x] = "delta" THEN <<>> ELSE <<Str(PoolText(x))>>
         IN /\ AllText(frags[x]) =>
                 Entry(x).content = Str(base \o ConcatText(frags[x]))
            /\ (AllBlocks(frags[x]) /\ frags[x] # <<>>) =>
                 Entry(x).content = Arr(boxed \o ConcatBlocks(frags[x]))

\* All three mergers interleaved: a snapshot wrote m1, two deltas extended
\* it, the sync added m2.
NoLostUpdatesWitness ==
  /\ IdsOf(messages) = <<"m1", "m2">>
  /\ origin["m1"] = "snapshot"
  /\ origin["m2"] = "sync"
  /\ frags["m1"] = <<Str("Hi"), Str(" there")>>

\* --------------------------------------------------------------------- C10
\* React runs the effect of every committed render, so the pending sync
\* effect is not postponed for ever.
FairSpec == Spec /\ WF_vars(SyncEffect)

\* C10 as stated: once the sync effect has run for the authoritative list,
\* every message of that list has an entry in the store.
SyncAddsEveryMessage ==
  (~effectPending /\ streamValue.hasMessages) =>
    \A i \in 1 .. Len(streamValue.messages) :
      streamValue.messages[i].id \in ExistingIds(messages)

\* C10 (amended): once the sync effect has run for the authoritative list,
\* every message of that list that has an id has an entry in the store, and
\* every id that appears in the authoritative list is eventually in the store.
SyncAddsEveryIdentified ==
  /\ [](( ~effectPending /\ streamValue.hasMessages) =>
          TruthyIds(streamValue.messages) \subseteq ExistingIds(messages))
  /\ \A x \in Ids :
       (streamValue.hasMessages /\ x \in TruthyIds(streamValue.messages))
         ~> (x \in ExistingIds(messages))

\* The sync effect has run for a list with a message without an id and a
\* message it had to append behind a delta-built one.
SyncAddsEveryIdentifiedWitness ==
  /\ ~effectPending
  /\ streamValue.messages = <<M0, M2>>
  /\ origin["m2"] = "sync"
  /\ origin["m1"] = "delta"
  /\ IdsOf(messages) = <<"m1", "m2">>

\* ---------------------------------------------------------------------- C11
\* The fragments that carry nothing: absent, the empty text, the empty block
\* array.
EmptyFragments == {Undef, Str(""), Arr(<<>>)}

\* The delivery of one token delta.
DeltaStep(c) == OnLangChainEvent("on_chat_model_stream", ChunkData(c))

\* C11: a token delta whose fragment is absent or empty, as text or as a
\* block array, leaves the store as it was, whether or not its id is known.
EmptyFragmentIsNoOp ==
  [][\A c \in Chunks :
       (c.content \in EmptyFragments /\ DeltaStep(c)) => messages' = messages]_vars

\* ---------------------------------------------------------------------- C12
\* The attachment map as a set of <<id, value>> pairs, and its ids.
UiPairs(state) == {<<state[i].id, state[i].props>> : i \in 1 .. Len(state)}
UiIds(state) == {state[i].id : i \in 1 .. Len(state)}

\* No id has two entries in the attachment list.
UiOneEntryPerId ==
  \A i, j \in 1 .. Len(ui) : ui[i].id = ui[j].id => i = j

\* The pairs of the ids other than u.
UiOthers(state, u) == {p \in UiPairs(state) : p[1] # u}

\* What one custom event does to the map: an upsert of U leaves U mapped to
\* its value alone, a remove of U leaves U absent, both leave the other ids
\* as they were, a remove of an id not in the map and an event that is neither
\* leave the map as it was.
UiEventApplied ==
  LET type == last'.event
      u == last'.arg
      v == last'.val
  IN last'.handler = "onCustomEvent" =>
       /\ type = "ui" =>
            /\ {p \in UiPairs(ui') : p[1] = u} = {<<u, v>>}
            /\ UiOthers(ui', u) = UiOthers(ui, u)
       /\ type = "remove-ui" =>
            /\ u \notin UiIds(ui')
            /\ UiOthers(ui', u) = UiOthers(ui, u)
            /\ u \notin UiIds(ui) => ui' = ui
       /\ type \notin {"ui", "remove-ui"} => ui' = ui

\* C12: after any sequence of upserts and removes the entry of id U is the
\* value of the most recent upsert of U if no remove of U followed it, and U is
\* absent otherwise; removing an id never seen leaves the map unchanged; the
\* map never holds two entries for one id.
UiLastWriteWins == []UiOneEntryPerId /\ [][UiEventApplied]_vars

\* An upsert of u1 has just replaced the value u1 had: u1 was in the map
\* before u2 was, and u2 before this event.
UiLastWriteWinsWitness ==
  /\ last.handler = "onCustomEvent" /\ last.event = "ui"
  /\ last.arg = "u1" /\ last.val = "v2"
  /\ ui = <<[id |-> "u1", props |-> "v2"], [id |-> "u2", props |-> "v1"]>>

\* ---------------------------------------------------------------------- C13
\* The content as a sequence: itself when it is one, boxed otherwise.
Boxed(content) == IF content.t = "arr" THEN content.a ELSE <<content>>

\* A step that merged fragment f into the entry of the known id x.
DeltaMerged(x, f) ==
  /\ x \in ExistingIds(messages)
  /\ frags'[x] = Append(frags[x], f)

\* C13: a string fragment for a known id whose content is not a string gives
\* a sequence: the existing sequence, or the previous value boxed, with the
\* fragment appended as its last element.
StringOntoBlocksIsSequence ==
  [][\A x \in Ids : \A f \in Fragments :
       (f.t = "str" /\ DeltaMerged(x, f) /\ Entry(x).content.t # "str") =>
         messages'[FindIndex(messages, x)].content
           = Arr(Append(Boxed(Entry(x).content), f))]_vars

\* ---------------------------------------------------------------------- C14
\* C14: a block-array fragment for a known id gives a sequence: the existing
\* sequence followed by the fragment's elements in order, the existing
\* content boxed first as a one-element sequence when it is a scalar.
BlocksAppendInOrder ==
  [][\A x \in Ids : \A f \in Fragments :
       (f.t = "arr" /\ DeltaMerged(x, f)) =>
         LET old == Entry(x).content
             new == messages'[FindIndex(messages, x)].content
         IN /\ new.t = "arr"
            /\ Len(new.a) = Len(Boxed(old)) + Len(f.a)
            /\ \A i \in 1 .. Len(Boxed(old)) : new.a[i] = Boxed(old)[i]
            /\ \A i \in 1 .. Len(f.a) : new.a[Len(Boxed(old)) + i] = f.a[i]
            /\ old.t # "arr" => new.a[1] = old]_vars

\* A block was appended to the boxed text of a snapshot.
BlocksAppendInOrderWitness ==
  /\ origin["m1"] = "snapshot"
  /\ frags["m1"] = <<Arr(<<BlockA>>)>>
  /\ Entry("m1").content = Arr(<<Str("Hello"), BlockA>>)

\* ---------------------------------------------------------------------- C15
\* The events that carry nothing to merge: a phase-boundary start, a name
\* that is none of the recognised ones, a stream delta without a chunk or
\* without a chunk id, a phase-boundary end without a message list.
NothingToMerge(event, data) ==
  \/ event \in {"on_chain_start", "on_tool_start", "on_chat_model_start"}
  \/ event \notin {"on_chain_stream", "on_chat_model_stream", "on_chain_end",
                   "on_tool_end", "on_chat_model_end", "on_chain_start",
                   "on_tool_start", "on_chat_model_start"}
  \/ /\ event \in {"on_chain_stream", "on_chat_model_stream"}
     /\ (~data.hasChunk \/ data.chunk.id = NoId)
  \/ /\ event \in {"on_chain_end", "on_tool_end", "on_chat_model_end"}
     /\ ~data.hasMessages

\* C15: an event that carries nothing to merge leaves the store unchanged.
NothingToMergeKeepsStore ==
  [][(last'.handler = "onLangChainEvent" /\ NothingToMerge(last'.event, last'.data))
       => messages' = messages]_vars

\* A start event carrying a chunk for an id the store does not hold has just
\* been handled, and the store holds what it held.
NothingToMergeKeepsStoreWitness ==
  /\ last.handler = "onLangChainEvent"
  /\ last.event = "on_chat_model_start"
  /\ last.data = ChunkData(Chunk("m2", Str("Hi")))
  /\ IdsOf(messages) = <<"m1">>

\* ---------------------------------------------------------------------- C16
\* C16: a custom UI event changes the attachment map at most and leaves the
\* store unchanged; a token-delta or phase-boundary event changes the store at
\* most and leaves the attachment map unchanged.
UiAndStoreIndependent ==
  [][/\ last'.handler = "onCustomEvent" => messages' = messages
     /\ last'.handler = "onLangChainEvent" => ui' = ui]_vars

\* An upsert has just been handled with messages in the store: the map holds
\* an attachment, the store still holds its messages, and neither id is known
\* to the other.
UiAndStoreIndependentWitness ==
  /\ last.handler = "onCustomEvent" /\ last.event = "ui"
  /\ ui = <<[id |-> "u2", props |-> "v1"]>>
  /\ IdsOf(messages) = <<"m1", "m2">>
  /\ UiIds(ui) \cap ExistingIds(messages) = {}

\* ---------------------------------------------------------------------- C17
\* C17: a thread-id notification, also one whose id differs from the tracked
\* one, and a server state-update event leave the store unchanged: same
\* entries, same order, same contents.
ThreadAndUpdateKeepStore ==
  [][last'.handler \in {"onThreadId", "onUpdateEvent"} => messages' = messages]_vars

\* The session tracked t1 and has just been told t2, with a message in the
\* store.
ThreadAndUpdateKeepStoreWitness ==
  /\ last.handler = "onThreadId" /\ last.arg = "t2" /\ last.val = "t1"
  /\ threadId = "t2"
  /\ messages = <<[id |-> "m1", content |-> Str("HiHi"), role |-> "ai"]>>

\* ---------------------------------------------------------------------- C18
\* What a step does when the probe answers: a probe that failed, by a status
\* that is not OK or by a thrown error, raises one notification, one that
\* succeeded raises none, and neither touches the store.
ProbeRaisesNotification ==
  last'.handler = "healthProbe" =>
    /\ last'.event \in {"not-ok", "throws"} => toasts' = toasts + 1
    /\ last'.event = "ok" => toasts' = toasts
    /\ messages' = messages

\* After a failed probe the stream events are merged as before it.
MergedAfterFailedProbe ==
  (toasts > 0 /\ last'.handler = "onLangChainEvent") =>
    /\ (last'.event \in StreamEvents /\ DeltaAccepted(last'.data)) =>
         messages' = TokenDeltaUpdater(messages, last'.data.chunk)
    /\ (last'.event \in EndEvents /\ SnapshotAccepted(last'.data)) =>
         messages' = SnapshotUpdater(messages, last'.data.messages)

\* C18: the outcome of the health probe governs the notification only: a
\* failed probe raises it and a successful one does not, the probe leaves the
\* store unchanged, nothing else raises a notification, and the stream events
\* that arrive after a failed probe are merged as usual.
ProbeGovernsNotificationOnly ==
  [][/\ ProbeRaisesNotification
     /\ toasts' # toasts => last'.handler = "healthProbe"
     /\ MergedAfterFailedProbe]_vars

\* A probe has failed, its notification is up, and the delta that came after
\* it is in the store.
ProbeGovernsNotificationOnlyWitness ==
  /\ toasts = 1
  /\ last.handler = "onLangChainEvent" /\ last.event = "on_chat_model_stream"
  /\ frags["m1"] = <<Str("Hi")>>
  /\ messages = <<Chunk("m1", Str("Hi"))>>

\* ---------------------------------------------------------------------- C19
\* C19: every entry of the store has a present, non-empty id: a delta whose
\* chunk has no id creates no entry, and a message without an id in a
\* snapshot list or in the authoritative list is never appended.
EveryEntryHasId == \A i \in 1 .. Len(messages) : messages[i].id # NoId

\* The sync of a list that opens with a message without an id has run: the
\* message that has an id is in the store, alone.
EveryEntryHasIdWitness ==
  /\ ~effectPending
  /\ streamValue.messages = <<M0, M2>>
  /\ messages = <<M2>>

\* ---------------------------------------------------------------------- C20
\* C20: a token delta for an id already in the store changes the content of
\* the entry of that id and nothing else: the length of the store, the order
\* of the entries, every other entry and the other fields of the updated
\* entry stay, whichever channel added the entry.
DeltaChangesContentOnly ==
  [][\A x \in Ids : \A f \in Fragments :
       DeltaMerged(x, f) =>
         LET k == FindIndex(messages, x)
         IN /\ Len(messages') = Len(messages)
            /\ IdsOf(messages') = IdsOf(messages)
            /\ \A i \in 1 .. Len(messages) : i # k => messages'[i] = messages[i]
            /\ [messages'[k] EXCEPT !.content = messages[k].content] = messages[k]]_vars

\* A text delta was merged into the tool message that the sync had added next
\* to a snapshot's message.
DeltaChangesContentOnlyWitness ==
  /\ origin["m1"] = "snapshot"
  /\ origin["m2"] = "sync"
  /\ frags["m2"] = <<Str("Hi")>>
  /\ messages = <<M1, [M2 EXCEPT !.content = Str("doneHi")]>>

====
